---- MODULE Spec2Model ----
(***************************************************************************)
(* State-machine model of src/models.py: the multiplicative-update NMF     *)
(* engine (_mu_update), the factorization model (NMFBase / NMF) and the    *)
(* convergence driver (NMFBase.fit).                                       *)
(*                                                                         *)
(* Numbers.  A tensor entry or a Python float is an exact rational <<n,d>> *)
(* in lowest terms with d > 0, or one of the IEEE specials                 *)
(* NaN = <<0,0>>, +inf = <<1,0>>, -inf = <<-1,0>>.  Tensor arithmetic      *)
(* follows IEEE (x/0 = inf, 0/0 = NaN); Python float division raises       *)
(* ZeroDivisionError on a zero divisor.                                    *)
(* A matrix is a sequence of rows; a factor collection (nn.ParameterList)  *)
(* is a sequence of 1 x c blocks, each block being one row.                *)
(***************************************************************************)
EXTENDS Integers, Sequences, FiniteSets

----------------------------------------------------------------------------
(* Scalars *)

Zero == <<0, 1>>
One == <<1, 1>>
Two == <<2, 1>>
Half == <<1, 2>>
NaN == <<0, 0>>
PosInf == <<1, 0>>
NegInf == <<-1, 0>>

Abs(i) == IF i < 0 THEN -i ELSE i

Sign(i) == IF i < 0 THEN -1 ELSE IF i = 0 THEN 0 ELSE 1

RECURSIVE GCD(_, _)
GCD(a, b) == IF b = 0 THEN a ELSE GCD(b, a % b)

\* <<n,d>> in lowest terms with a positive denominator; d = 0 gives a special.
Norm(n, d) ==
  IF d = 0 THEN <<Sign(n), 0>>
  ELSE LET g == GCD(Abs(n), Abs(d))
       IN <<(Sign(d) * n) \div g, Abs(d) \div g>>

IsNaN(a) == a = NaN

IsFinite(a) == a[2] # 0

Neg(a) == <<-a[1], a[2]>>

Add(a, b) ==
  IF IsNaN(a) \/ IsNaN(b) THEN NaN
  ELSE IF ~IsFinite(a) THEN (IF ~IsFinite(b) /\ b # a THEN NaN ELSE a)
  ELSE IF ~IsFinite(b) THEN b
  ELSE LET g == GCD(a[2], b[2])  \* over the least common denominator
       IN Norm(a[1] * (b[2] \div g) + b[1] * (a[2] \div g), (a[2] \div g) * b[2])

Sub(a, b) == Add(a, Neg(b))

Mul(a, b) ==
  IF ~IsFinite(a) \/ ~IsFinite(b) \/ a[1] = 0 \/ b[1] = 0
  THEN Norm(a[1] * b[1], a[2] * b[2])
  ELSE LET g1 == GCD(Abs(a[1]), b[2])  \* cancel before multiplying
           g2 == GCD(Abs(b[1]), a[2])
       IN <<(a[1] \div g1) * (b[1] \div g2), (a[2] \div g2) * (b[2] \div g1)>>

\* 1/b: 1/0 = +inf, 1/inf = 0, 1/NaN = NaN.
Recip(b) ==
  IF b[1] = 0 THEN (IF b[2] = 0 THEN NaN ELSE PosInf)
  ELSE IF b[2] = 0 THEN Zero
  ELSE Norm(b[2], b[1])

\* IEEE division: x/0 = +-inf, 0/0 = inf/inf = NaN.
Div(a, b) == Mul(a, Recip(b))

\* a < b; every comparison with NaN is false.
Lt(a, b) ==
  IF IsNaN(a) \/ IsNaN(b) THEN FALSE
  ELSE IF a = b THEN FALSE
  ELSE IF a = NegInf \/ b = PosInf THEN TRUE
  ELSE IF a = PosInf \/ b = NegInf THEN FALSE
  ELSE a[1] * b[2] < b[1] * a[2]

Le(a, b) == ~IsNaN(a) /\ ~IsNaN(b) /\ ~Lt(b, a)

\* a >= 0 (false for NaN).
NonNeg(a) == Le(Zero, a)

----------------------------------------------------------------------------
(* Tensors: a matrix is a sequence of rows of scalars *)

Rows(A) == Len(A)

Cols(A) == IF Len(A) = 0 THEN 0 ELSE Len(A[1])

Shape(A) == <<Rows(A), Cols(A)>>

\* All rows have the same width.
Rectangular(A) == \A i \in 1..Len(A) : Len(A[i]) = Len(A[1])

RECURSIVE SumSeq(_)
SumSeq(s) == IF Len(s) = 0 THEN Zero ELSE Add(Head(s), SumSeq(Tail(s)))

\* A broadcast to r x c (a dimension of size 1 is repeated).
Bc(A, r, c) ==
  [i \in 1..r |-> [j \in 1..c |->
     A[IF Rows(A) = 1 THEN 1 ELSE i][IF Cols(A) = 1 THEN 1 ELSE j]]]

MatMap(Op(_), A) == [i \in 1..Rows(A) |-> [j \in 1..Cols(A) |-> Op(A[i][j])]]

\* Elementwise binary operation of A (r x c) with B broadcast to A's shape.
MatZip(Op(_, _), A, B) ==
  LET Bb == Bc(B, Rows(A), Cols(A))
  IN [i \in 1..Rows(A) |-> [j \in 1..Cols(A) |-> Op(A[i][j], Bb[i][j])]]

Transpose(A) == [j \in 1..Cols(A) |-> [i \in 1..Rows(A) |-> A[i][j]]]

MatMul(A, B) ==
  [i \in 1..Rows(A) |-> [j \in 1..Cols(B) |->
     SumSeq([l \in 1..Cols(A) |-> Mul(A[i][l], B[l][j])])]]

\* tensor.sum(dim=1): one sum per row.
SumDim1(A) == [i \in 1..Rows(A) |-> SumSeq(A[i])]

\* tensor.sum(dim=0): one sum per column.
SumDim0(A) == [j \in 1..Cols(A) |-> SumSeq([i \in 1..Rows(A) |-> A[i][j]])]

----------------------------------------------------------------------------
(* Inputs *)

\* NMF(X_shape, n_components, ...): X is m_examples x n_features.
X_shape == <<2, 1>>

n_components == 2

m_examples == X_shape[1]

n_features == X_shape[2]

W_shape == <<m_examples, n_components>>

H_shape == <<n_components, n_features>>

\* Largest max_iter passed to fit.
MaxIterBound == 3

\* The exact arithmetic is followed while every numerator and denominator
\* of the factors stays within this magnitude.
MaxMagnitude == 100

None == <<>>

Unbound == <<>>

\* Outcomes of torch.rand, which draws from [0, 1).
RandVals == {Half}

\* Explicit initial_weights: two of the declared shape (2 x 2), one with
\* blocks of the wrong width, one with one block too many.
WInits ==
  { << <<One, One>>, <<One, Zero>> >>,
    << <<Zero, Zero>>, <<Two, One>> >>,
    << <<One>>, <<One>> >>,
    << <<One, One>>, <<One, One>>, <<One, One>> >> }

\* Explicit initial_components: two of the declared shape (2 x 1), one with
\* one block too many.
HInits ==
  { << <<One>>, <<One>> >>,
    << <<Zero>>, <<One>> >>,
    << <<One>>, <<One>>, <<One>> >> }

FixWeights == { <<>>, <<TRUE>>, <<TRUE, TRUE>>, <<FALSE, FALSE, TRUE>> }

FixComponents == { <<>>, <<TRUE>>, <<TRUE, TRUE>> }

\* X as passed to fit (non-negative entries).
XInputs == { << <<Two>>, <<One>> >> }

\* beta = 1 (generalized KL) and beta = 2 (squared error). For both gamma
\* is 1, so the multiplier is not raised to a power (lines 29-30), and WH
\* is not raised to beta - 1 (lines 190-191).
Betas == {1, 2}

Tols == {Zero, Half}

\* <<alpha, l1_ratio>>
Regs == { <<Zero, Zero>>, <<One, One>>, <<One, Zero>> }

\* Values the (un-normalized) divergence takes when it is finite and not zero.
PositiveLosses == {<<4, 1>>, <<8, 1>>}

----------------------------------------------------------------------------
(* State *)

VARIABLES
  pc,            \* "new", "ready", "wstep", "hstep", "check", "return", "done", "raised"
  exc,           \* the exception raised, "" if none
  result,        \* the value fit returned, -1 before it returns
  W_list, H_list,          \* the blocks' values
  W_requires_grad, H_requires_grad,  \* the blocks' requires_grad flags
  args,          \* fit's arguments: X, update_W, update_H, beta, tol, max_iter
  gamma, l1_reg, l2_reg,   \* fit's locals, lines 122-129
  H_sum, W_sum,  \* the cached sums, None or a vector
  n_iter,        \* the loop variable, -1 while unbound
  loss,          \* the local `loss`: Unbound, or the divergence's value
  previous_loss, loss_init,
  \* history variables (not read by the program)
  W_at_call, H_at_call,    \* the factors when fit was called
  iters,         \* how many times the loop body was entered
  stop,          \* how the loop ended: "", "converged", "max_iter"
  den_W, den_H,  \* the denominators the oracles returned in this iteration's steps
  degenerate     \* some multiplier was divided by a denominator holding a zero

vars == <<pc, exc, result, W_list, H_list, W_requires_grad, H_requires_grad,
          args, gamma, l1_reg, l2_reg, H_sum, W_sum, n_iter, loss,
          previous_loss, loss_init, W_at_call, H_at_call, iters, stop,
          den_W, den_H, degenerate>>

model_vars == <<W_list, H_list, W_requires_grad, H_requires_grad>>

fit_locals == <<gamma, l1_reg, l2_reg, H_sum, W_sum, n_iter, loss,
                previous_loss, loss_init>>

history == <<W_at_call, H_at_call, iters, stop, den_W, den_H, degenerate>>

----------------------------------------------------------------------------
(* NMFBase *)

\* self.fix_neg = nn.Threshold(0.0, 1e-8): x if x > 0, else 1e-8
\* (the kernel tests x <= threshold, so NaN passes through).
Eps == <<1, 100000000>>

fix_neg(x) == IF Le(x, Zero) THEN Eps ELSE x

\* The gradient fix_neg passes back: none where the input was clamped.
fix_neg_backward(x, g) == IF Le(x, Zero) THEN Zero ELSE g

\* The W / H properties: torch.cat of the blocks (each block is one row).
Cat(blocks) == blocks

\* All n-tuples over S.
Tuples(n, S) == [1..n -> S]

\* A list of r random 1 x c blocks.
RandBlocks(r, c) == Tuples(r, Tuples(c, RandVals))

\* requires_grad after the fix_* loop of __init__ (blocks default to trainable).
RequiresGrad(n, fix) ==
  [i \in 1..n |-> IF i <= Len(fix) THEN ~fix[i] ELSE TRUE]

\* NMF.__init__ / NMFBase.__init__
Construct ==
  /\ pc = "new"
  /\ \E initial_weights \in WInits \cup {None},
        initial_components \in HInits \cup {None},
        fix_weights \in FixWeights,
        fix_components \in FixComponents :
       \E w_list \in (IF initial_weights # None THEN {initial_weights}
                      ELSE RandBlocks(W_shape[1], W_shape[2])),
          h_list \in (IF initial_components # None THEN {initial_components}
                      ELSE RandBlocks(H_shape[1], H_shape[2])) :
         IF Len(fix_weights) > Len(w_list) \/ Len(fix_components) > Len(h_list)
         THEN \* w_list[i] / h_list[i] is out of range
              /\ pc' = "raised"
              /\ exc' = "IndexError"
              /\ UNCHANGED model_vars
         ELSE /\ pc' = "ready"
              /\ W_list' = w_list
              /\ H_list' = h_list
              /\ W_requires_grad' = RequiresGrad(Len(w_list), fix_weights)
              /\ H_requires_grad' = RequiresGrad(Len(h_list), fix_components)
              /\ UNCHANGED exc
  /\ UNCHANGED <<result, args, fit_locals, history>>

\* NMF.reconstruct
reconstruct(H, W) == MatMul(W, H)

\* NMF.get_W_positive: the denominator and the (possibly reused) H_sum.
\* For beta = 1 the denominator H_sum[None, :] is a view of H_sum.
get_W_positive(H, WH, beta, Hsum) ==
  IF beta = 1
  THEN LET hs == IF Hsum = None THEN SumDim1(H) ELSE Hsum
       IN [denominator |-> <<hs>>, H_sum |-> hs]
  ELSE [denominator |-> MatMul(WH, Transpose(H)), H_sum |-> Hsum]

\* NMF.get_H_positive: the denominator and the (possibly reused) W_sum.
\* For beta = 1 the denominator W_sum[:, None] is a view of W_sum.
get_H_positive(W, WH, beta, Wsum) ==
  IF beta = 1
  THEN LET ws == IF Wsum = None THEN SumDim0(W) ELSE Wsum
       IN [denominator |-> [a \in 1..Len(ws) |-> <<ws[a]>>], W_sum |-> ws]
  ELSE [denominator |-> MatMul(Transpose(W), WH), W_sum |-> Wsum]

----------------------------------------------------------------------------
(* metrics.beta_divergence and its gradient *)

\* d beta_divergence(y, x, beta) / dy for one entry: y - x for beta = 2
\* (half the squared error), 1 - x / y for beta = 1 (generalized KL).
dbeta_divergence(y, x, beta) ==
  IF beta = 2 THEN Sub(y, x) ELSE Sub(One, Div(x, y))

\* loss.backward(): the gradient of beta_divergence(fix_neg(WH), X, beta)
\* with respect to WH.
GradWH(WH, X, beta) ==
  [i \in 1..Rows(WH) |-> [j \in 1..Cols(WH) |->
     fix_neg_backward(WH[i][j],
                      dbeta_divergence(fix_neg(WH[i][j]), X[i][j], beta))]]

\* The values beta_divergence(Y, X, beta) can take: NaN when Y holds a NaN,
\* infinite when Y holds an infinity, zero exactly when Y = X, and positive
\* otherwise.
LossOf(Y, X) ==
  LET entries == {Y[i][j] : i \in 1..Rows(Y), j \in 1..Cols(Y)}
  IN IF NaN \in entries THEN {NaN}
     ELSE IF PosInf \in entries THEN {PosInf, NaN}
     ELSE IF Y = X THEN {Zero}
     ELSE PositiveLosses

\* ... with respect to W (WH = W @ H), one row per block of W_list.
GradW(WH, H, X, beta) == MatMul(GradWH(WH, X, beta), Transpose(H))

\* ... with respect to H, one row per block of H_list.
GradH(WH, W, X, beta) == MatMul(Transpose(W), GradWH(WH, X, beta))

----------------------------------------------------------------------------
(* _mu_update *)

\* Line 9: the gradient of a collection; zeros for a block that does not
\* require grad.
CollectGrad(param, requires_grad, grads) ==
  [i \in 1..Rows(param) |->
     IF requires_grad[i] THEN grads[i] ELSE [j \in 1..Cols(param) |-> Zero]]

Relu(a) == IF a[1] < 0 THEN Zero ELSE a

\* Line 15, one entry: relu(pos - grad).
Numerator(p, g) == Relu(Sub(p, g))

\* Regularize with the L1 term subtracted from pos instead of added.
Regularize_l1_subtracted(param, pos, l1, l2) ==
  LET pos1 == IF Lt(Zero, l1) THEN MatMap(LAMBDA x : Sub(x, l1), pos) ELSE pos
      scaled == MatMap(LAMBDA x : Mul(l2, x), param)
      pos2 == IF Lt(Zero, l2)
              THEN MatZip(Add, scaled, pos1)
              ELSE pos1
  IN [used |-> pos2,
      inplace |-> IF Lt(Zero, l2) /\ Shape(pos1) = Shape(param) THEN pos2 ELSE pos1]

\* Lines 16-26: pos after regularization.  `used` is the tensor the
\* multiplier is divided by; `inplace` is what the tensor passed in as pos
\* holds afterwards (add_ writes through, pos = pos + ... does not).
Regularize(param, pos, l1, l2) ==
  LET pos1 == IF Lt(Zero, l1) THEN MatMap(LAMBDA x : Add(x, l1), pos) ELSE pos
      scaled == MatMap(LAMBDA x : Mul(l2, x), param)
      pos2 == IF Lt(Zero, l2)
              THEN MatZip(Add, scaled, pos1)
              ELSE pos1
  IN [used |-> pos2,
      inplace |-> IF Lt(Zero, l2) /\ Shape(pos1) = Shape(param) THEN pos2 ELSE pos1]

\* _mu_update on a ParameterList with gamma = 1: the blocks' new values,
\* what the tensor passed in as pos holds afterwards, and the tensor the
\* multiplier was divided by.
_mu_update(param, requires_grad, grads, pos, l1, l2) ==
  LET r == Rows(param)
      c == Cols(param)
      grad == CollectGrad(param, requires_grad, grads)
      posb == Bc(pos, r, c)
      multiplier0 == [i \in 1..r |-> [j \in 1..c |-> Numerator(posb[i][j], grad[i][j])]]
      reg == Regularize(param, pos, l1, l2)
      multiplier == MatZip(Div, multiplier0, reg.used)
  IN [param |-> MatZip(Mul, param, multiplier), pos |-> reg.inplace,
      divisor |-> reg.used]

----------------------------------------------------------------------------
(* NMFBase.fit *)

\* Lines 122-127, for an integer beta.
Gamma(beta) ==
  IF beta < 1 THEN Norm(1, 2 - beta)
  ELSE IF beta > 2 THEN Norm(1, beta - 1)
  ELSE One

\* Line 130: the number of elements of X.
loss_scale(X) == <<Rows(X) * Cols(X), 1>>

\* torch.cat, the matrix product and the elementwise divergence all accept
\* the blocks: equal block widths, W's width = H's rows, W @ H shaped as X.
\* Otherwise the step raises RuntimeError.
Conformable(W, H, X) ==
  /\ Rectangular(W)
  /\ Rectangular(H)
  /\ Cols(W) = Rows(H)
  /\ <<Rows(W), Cols(H)>> = Shape(X)

\* Every entry of A is a special or has numerator and denominator within
\* MaxMagnitude.
Representable(A) ==
  \A i \in 1..Len(A) : \A j \in 1..Len(A[i]) :
    Abs(A[i][j][1]) <= MaxMagnitude /\ A[i][j][2] <= MaxMagnitude

HasZero(A) == \E i \in 1..Rows(A) : \E j \in 1..Cols(A) : A[i][j] = Zero

any_requires_grad(flags) == \E i \in 1..Len(flags) : flags[i]

\* fit(X, update_W, update_H, beta, tol, max_iter, alpha, l1_ratio):
\* lines 120-132, up to the first test of the for loop.
FitCall ==
  /\ pc = "ready"
  /\ \E X \in XInputs, update_W \in BOOLEAN, update_H \in BOOLEAN,
        beta \in Betas, tol \in Tols, max_iter \in 0..MaxIterBound,
        reg \in Regs :
       /\ args' = [X |-> MatMap(fix_neg, X), update_W |-> update_W,
                   update_H |-> update_H, beta |-> beta, tol |-> tol,
                   max_iter |-> max_iter]
       /\ gamma' = Gamma(beta)
       /\ l1_reg' = Mul(reg[1], reg[2])
       /\ l2_reg' = Mul(reg[1], Sub(One, reg[2]))
       /\ IF max_iter > 0
          THEN /\ n_iter' = 0
               /\ iters' = 1
               /\ pc' = "wstep"
               /\ stop' = ""
          ELSE /\ n_iter' = -1
               /\ iters' = 0
               /\ pc' = "return"
               /\ stop' = "max_iter"
  /\ H_sum' = None
  /\ W_sum' = None
  /\ W_at_call' = W_list
  /\ H_at_call' = H_list
  /\ UNCHANGED <<exc, result, model_vars, loss, previous_loss, loss_init,
                 den_W, den_H, degenerate>>

\* Lines 133-141.
WStep ==
  /\ pc = "wstep"
  /\ IF args.update_W /\ any_requires_grad(W_requires_grad)
     THEN IF ~Conformable(W_list, H_list, args.X)
          THEN /\ pc' = "raised"
               /\ exc' = "RuntimeError"
               /\ UNCHANGED <<W_list, H_sum, W_sum, loss, den_W, degenerate>>
          ELSE /\ Representable(W_list)
               /\ Representable(H_list)
               /\ \E WH \in {reconstruct(Cat(H_list), Cat(W_list))} :
                  \E l \in LossOf(MatMap(fix_neg, WH), args.X),
                     grads \in {GradW(WH, Cat(H_list), args.X, args.beta)},
                     o \in {get_W_positive(Cat(H_list), WH, args.beta, H_sum)} :
                  \E u \in {_mu_update(W_list, W_requires_grad, grads,
                                       o.denominator, l1_reg, l2_reg)} :
                     /\ loss' = l
                     /\ W_list' = u.param
                     /\ H_sum' = IF args.beta = 1 THEN u.pos[1] ELSE o.H_sum
                     /\ W_sum' = None
                     /\ den_W' = o.denominator
                     /\ degenerate' = (degenerate \/ HasZero(u.divisor))
                     /\ pc' = "hstep"
                     /\ UNCHANGED exc
     ELSE /\ pc' = "hstep"
          /\ den_W' = None
          /\ UNCHANGED <<exc, W_list, H_sum, W_sum, loss, degenerate>>
  /\ UNCHANGED <<result, H_list, W_requires_grad, H_requires_grad, args,
                 gamma, l1_reg, l2_reg, n_iter, previous_loss, loss_init,
                 W_at_call, H_at_call, iters, stop, den_H>>

\* Lines 143-151.
HStep ==
  /\ pc = "hstep"
  /\ IF args.update_H /\ any_requires_grad(H_requires_grad)
     THEN IF ~Conformable(W_list, H_list, args.X)
          THEN /\ pc' = "raised"
               /\ exc' = "RuntimeError"
               /\ UNCHANGED <<H_list, H_sum, W_sum, loss, den_H, degenerate>>
          ELSE /\ Representable(W_list)
               /\ Representable(H_list)
               /\ \E WH \in {reconstruct(Cat(H_list), Cat(W_list))} :
                  \E l \in LossOf(MatMap(fix_neg, WH), args.X),
                     grads \in {GradH(WH, Cat(W_list), args.X, args.beta)},
                     o \in {get_H_positive(Cat(W_list), WH, args.beta, W_sum)} :
                  \E u \in {_mu_update(H_list, H_requires_grad, grads,
                                       o.denominator, l1_reg, l2_reg)} :
                     /\ loss' = l
                     /\ H_list' = u.param
                     /\ W_sum' = IF args.beta = 1
                                 THEN [a \in 1..Rows(u.pos) |-> u.pos[a][1]]
                                 ELSE o.W_sum
                     /\ H_sum' = None
                     /\ den_H' = o.denominator
                     /\ degenerate' = (degenerate \/ HasZero(u.divisor))
                     /\ pc' = "check"
                     /\ UNCHANGED exc
     ELSE /\ pc' = "check"
          /\ den_H' = None
          /\ UNCHANGED <<exc, H_list, H_sum, W_sum, loss, degenerate>>
  /\ UNCHANGED <<result, W_list, W_requires_grad, H_requires_grad, args,
                 gamma, l1_reg, l2_reg, n_iter, previous_loss, loss_init,
                 W_at_call, H_at_call, iters, stop, den_W>>

\* The tolerance test with <= in place of <.
BelowTol_inclusive(prev, cur, init, tol) == Le(Div(Sub(prev, cur), init), tol)

\* Line 158: the tolerance test (loss_init is not zero).
BelowTol(prev, cur, init, tol) == Lt(Div(Sub(prev, cur), init), tol)

\* Lines 153-160 and the next test of the for loop.
Check ==
  /\ pc = "check"
  /\ IF loss = Unbound
     THEN \* line 153 reads a local no step has assigned
          /\ pc' = "raised"
          /\ exc' = "UnboundLocalError"
          /\ UNCHANGED <<n_iter, loss, previous_loss, loss_init, iters, stop>>
     ELSE LET cur == Div(loss, loss_scale(args.X))
              break == /\ n_iter # 0
                       /\ loss_init # Zero
                       /\ BelowTol(previous_loss, cur, loss_init, args.tol)
          IN /\ loss' = cur
             /\ IF n_iter # 0 /\ loss_init = Zero
                THEN \* float division by zero at line 158
                     /\ pc' = "raised"
                     /\ exc' = "ZeroDivisionError"
                     /\ UNCHANGED <<n_iter, previous_loss, loss_init, iters, stop>>
                ELSE /\ loss_init' = IF n_iter = 0 THEN cur ELSE loss_init
                     /\ previous_loss' = IF break THEN previous_loss ELSE cur
                     /\ UNCHANGED exc
                     /\ IF break
                        THEN /\ pc' = "return"
                             /\ stop' = "converged"
                             /\ UNCHANGED <<n_iter, iters>>
                        ELSE IF n_iter + 1 < args.max_iter
                        THEN /\ pc' = "wstep"
                             /\ n_iter' = n_iter + 1
                             /\ iters' = iters + 1
                             /\ UNCHANGED stop
                        ELSE /\ pc' = "return"
                             /\ stop' = "max_iter"
                             /\ UNCHANGED <<n_iter, iters>>
  /\ UNCHANGED <<result, model_vars, args, gamma, l1_reg, l2_reg, H_sum, W_sum,
                 W_at_call, H_at_call, den_W, den_H, degenerate>>

\* Line 162: return n_iter.
Return ==
  /\ pc = "return"
  /\ IF n_iter = -1
     THEN \* the loop never bound n_iter
          /\ pc' = "raised"
          /\ exc' = "UnboundLocalError"
          /\ UNCHANGED result
     ELSE /\ pc' = "done"
          /\ result' = n_iter
          /\ UNCHANGED exc
  /\ UNCHANGED <<model_vars, args, fit_locals, history>>

\* fit_transform: fit's return value and the concatenated W.
fit_transform == <<result, Cat(W_list)>>

----------------------------------------------------------------------------

Init ==
  /\ pc = "new"
  /\ exc = ""
  /\ result = -1
  /\ W_list = <<>>
  /\ H_list = <<>>
  /\ W_requires_grad = <<>>
  /\ H_requires_grad = <<>>
  /\ args = [X |-> <<>>, update_W |-> FALSE, update_H |-> FALSE, beta |-> 2,
             tol |-> Zero, max_iter |-> 0]
  /\ gamma = One
  /\ l1_reg = Zero
  /\ l2_reg = Zero
  /\ H_sum = None
  /\ W_sum = None
  /\ n_iter = -1
  /\ loss = Unbound
  /\ previous_loss = Unbound
  /\ loss_init = Unbound
  /\ W_at_call = <<>>
  /\ H_at_call = <<>>
  /\ iters = 0
  /\ stop = ""
  /\ den_W = None
  /\ den_H = None
  /\ degenerate = FALSE

Next == Construct \/ FitCall \/ WStep \/ HStep \/ Check \/ Return

Spec == Init /\ [][Next]_vars

----------------------------------------------------------------------------
(* Properties *)

FitCalled == W_at_call # <<>>

FactorEntries ==
  {W_list[i][j] : i \in 1..Len(W_list), j \in 1..Cols(W_list)}
    \cup {H_list[i][j] : i \in 1..Len(H_list), j \in 1..Cols(H_list)}

W_step_runs == args.update_W /\ any_requires_grad(W_requires_grad)

H_step_runs == args.update_H /\ any_requires_grad(H_requires_grad)

DeclaredShapes ==
  /\ Rectangular(W_list) /\ Shape(W_list) = W_shape
  /\ Rectangular(H_list) /\ Shape(H_list) = H_shape

\* C1: once fit has been called, every block whose requires_grad is False
\* holds the value it had when fit was called.
C1_FixedBlockInvariance ==
  FitCalled =>
    /\ \A i \in 1..Len(W_list) : ~W_requires_grad[i] => W_list[i] = W_at_call[i]
    /\ \A i \in 1..Len(H_list) : ~H_requires_grad[i] => H_list[i] = H_at_call[i]

C4_ReturnsIterationCount ==
  pc = "done" => result = iters /\ fit_transform[1] = iters

\* C5: with max_iter >= 1, a skipped side is not an error: fit does not
\* fail on the local that only a step assigns.
C5_SkippedSideIsNoError ==
  (FitCalled /\ args.max_iter >= 1 /\ (~W_step_runs \/ ~H_step_runs))
    => exc # "UnboundLocalError"

\* C6: the stop rule.  After the steps of iteration n: at n = 0 loss_init is
\* recorded and the loop goes on; at n >= 1 fit stops as CONVERGED exactly
\* when (previous_loss - loss) / loss_init < tol; otherwise it goes on to
\* the next iteration, or stops as MAX-ITER-REACHED after max_iter iterations.
C6_StopRule ==
  [][(pc = "check" /\ loss # Unbound) =>
       LET cur == Div(loss, loss_scale(args.X))
           converged == /\ n_iter >= 1
                        /\ Lt(Div(Sub(previous_loss, cur), loss_init), args.tol)
       IN /\ n_iter = 0 => loss_init' = cur
          /\ IF converged
             THEN pc' = "return" /\ stop' = "converged"
             ELSE IF n_iter + 1 < args.max_iter
             THEN pc' = "wstep" /\ n_iter' = n_iter + 1
             ELSE pc' = "return" /\ stop' = "max_iter" /\ iters = args.max_iter]_vars

\* C7 as stated: with tol = 0, when the loop has ended it has executed
\* exactly max_iter iterations.
C7_TolZeroRunsMaxIter ==
  (args.tol = Zero /\ args.max_iter >= 1 /\ pc \in {"return", "done"})
    => iters = args.max_iter

\* C7 amended: with tol = 0, fit takes the tolerance exit only at an
\* iteration whose loss is larger than the previous iteration's; while
\* the loss does not increase it never stops on the tolerance test.
C7_TolZeroStopsOnlyOnRise ==
  (args.tol = Zero /\ stop = "converged") => Lt(previous_loss, loss)

\* C7 witness: with tol = 0 fit has left the loop on the tolerance test
\* before using its budget.
C7_Witness ==
  /\ args.tol = Zero /\ stop = "converged" /\ pc = "done"
  /\ iters < args.max_iter

\* C8: a fit that updates at least one side of a well-shaped model never
\* raises, and performs at most max_iter iterations.
C8_FitNeverRaises ==
  (FitCalled /\ (W_step_runs \/ H_step_runs)
     /\ Conformable(W_list, H_list, args.X))
    => pc # "raised" /\ iters <= args.max_iter

\* C9: a constructed model's W and H have the declared shapes (a shape
\* mismatch raises at construction).
C9_ConstructedShapes == pc = "ready" => DeclaredShapes

\* C10: for beta = 1 the denominator get_W_positive returned in the W-step
\* just taken is the row sums of H, and the one get_H_positive returned in
\* the H-step just taken is the column sums of W.
C10_CacheCoherence ==
  /\ (args.beta = 1 /\ pc = "hstep" /\ den_W # None)
       => den_W = <<SumDim1(Cat(H_list))>>
  /\ (args.beta = 1 /\ pc = "check" /\ den_H # None)
       => den_H = [a \in 1..Cols(W_list) |-> <<SumDim0(Cat(W_list))[a]>>]

====
